---- MODULE Spec2Model ----
(***************************************************************************)
(* Model of daemon/mdns_client.cpp (MDNSClient, Avahi build).              *)
(*                                                                         *)
(* Three kinds of threads:                                                 *)
(*   - the host thread, which calls init(), process_results(), terminate() *)
(*   - the Avahi threaded-poll thread, which runs client_callback,          *)
(*     browse_callback and resolve_callback                                 *)
(*   - one std::async thread per dispatched RTSP describe                   *)
(***************************************************************************)
EXTENDS Integers, Sequences, FiniteSets, TLC

(* ------------------------------ bounds --------------------------------- *)
\* events the poll thread may deliver in one run
MaxEvents == 5
\* init() calls that go past the running_ check and acquire a poll object
MaxInits == 2

\* service names the browser may announce (all in the one browsed domain)
Services == {"cam1", "cam2"}

(* --------------------------- addresses --------------------------------- *)
\* AvahiAddress values offered by the resolver (proto + raw data)
Addr4a == [proto |-> "INET", data |-> <<192, 168, 1, 10>>]
Addr4b == [proto |-> "INET", data |-> <<10, 0, 0, 255>>]
Addr6a == [proto |-> "INET6", data |-> <<65152, 0, 0, 0, 0, 0, 0, 1>>]
Addr6mapped == [proto |-> "INET6", data |-> <<0, 0, 0, 0, 0, 65535, 49320, 266>>]
Addresses == {Addr4a, Addr4b, Addr6a, Addr6mapped}

DigitChars == <<"0", "1", "2", "3", "4", "5", "6", "7", "8", "9",
                "a", "b", "c", "d", "e", "f">>

RECURSIVE DecChars(_)
DecChars(n) ==
  IF n < 10 THEN <<DigitChars[n + 1]>>
  ELSE DecChars(n \div 10) \o <<DigitChars[(n % 10) + 1]>>

RECURSIVE HexChars(_)
HexChars(n) ==
  IF n < 16 THEN <<DigitChars[n + 1]>>
  ELSE HexChars(n \div 16) \o <<DigitChars[(n % 16) + 1]>>

RECURSIVE JoinWith(_, _)
JoinWith(parts, sep) ==
  IF Len(parts) = 0 THEN <<>>
  ELSE IF Len(parts) = 1 THEN parts[1]
  ELSE parts[1] \o <<sep>> \o JoinWith(Tail(parts), sep)

DottedQuad(o) == JoinWith([i \in 1..Len(o) |-> DecChars(o[i])], ".")

\* avahi_address_snprint: the textual form of an AvahiAddress (inet_ntop).
\* IPv6 is printed as colon separated hex groups, the IPv4-mapped form with
\* a dotted quad tail; zero-run compression is left out, it only drops groups.
avahi_address_snprint(a) ==
  IF a.proto = "INET" THEN DottedQuad(a.data)
  ELSE IF SubSeq(a.data, 1, 6) = <<0, 0, 0, 0, 0, 65535>>
       THEN <<":", ":", "f", "f", "f", "f", ":">>
            \o DottedQuad(<<a.data[7] \div 256, a.data[7] % 256,
                            a.data[8] \div 256, a.data[8] % 256>>)
       ELSE JoinWith([i \in 1..Len(a.data) |-> HexChars(a.data[i])], ":")

DecDigit(c) == IF \E d \in 1..10 : DigitChars[d] = c
               THEN (CHOOSE d \in 1..10 : DigitChars[d] = c) - 1
               ELSE -1

\* inet_pton(AF_INET): four decimal octets 0..255 separated by '.', no
\* leading zero, nothing else.  Returns TRUE when the text parses (no ec).
RECURSIVE Pton4(_, _, _, _)
Pton4(s, octets, val, saw) ==
  IF Len(s) = 0 THEN octets = 3 /\ saw
  ELSE LET c == Head(s) IN
       IF DecDigit(c) >= 0
       THEN LET nv == val * 10 + DecDigit(c) IN
            IF saw /\ val = 0 THEN FALSE
            ELSE IF nv > 255 THEN FALSE
            ELSE Pton4(Tail(s), octets, nv, TRUE)
       ELSE IF c = "." /\ saw
            THEN IF octets = 3 THEN FALSE
                 ELSE Pton4(Tail(s), octets + 1, 0, FALSE)
            ELSE FALSE

address_from_string_any_family(text) == Len(text) > 0

\* boost::asio::ip::address_v4::from_string(addr, ec); TRUE iff !ec
address_v4_from_string(text) == Pton4(text, 0, 0, FALSE)

(* ------------------------------ state ---------------------------------- *)
VARIABLES
  running_,            \* MDNSClient::running_
  poll_,               \* unique_ptr<AvahiThreadedPoll>: 0 = nullptr, else object id
  client_,             \* unique_ptr<AvahiClient>: [id, on] (on = poll it lives on)
  sb_,                 \* unique_ptr<AvahiServiceBrowser>: [id, on] (on = its client)
  sources_res_,        \* std::list<std::future<void>>: sequence of task ids
  sources_res_mutex_,  \* owner of the mutex: "free", "host" or "loop"
  loop,                \* the threaded poll's thread: "none","running","quit","stopped"
  ev,                  \* the poll thread's current callback frame
  host,                \* the host thread's current call frame
  task,                \* the std::async tasks ever launched, by id
  resolvers,           \* outstanding AvahiServiceResolver objects
  removeCalls,         \* on_remove_rtsp_source invocations, per service name
  seen,                \* history of the poll thread: a fatal condition since init,
                       \* a FOUND with a non-IPv4 address, the FOUNDs with an IPv4 one
  nev,                 \* number of events handled
  alloc,               \* objects ever acquired: polls, clients, browsers, threads
  calls                \* the host's last call: operation, return value, early return

vars == <<running_, poll_, client_, sb_, sources_res_, sources_res_mutex_, loop,
          ev, host, task, resolvers, removeCalls, seen, nev, alloc, calls>>

NullHandle == [id |-> 0, on |-> 0]
IdleEv == [pc |-> "idle", svc |-> "", stale |-> FALSE]
IdleHost == [pc |-> "idle", i |-> 0, waits |-> 0, snap |-> <<>>]
NoCall == [op |-> "none", ret |-> FALSE, noop |-> FALSE]
NewTask(s, st) == [svc |-> s, st |-> "running", res |-> "none", news |-> 0,
                   stale |-> st, late |-> FALSE, removed |-> 0]
ResolverKinds == Services \X BOOLEAN
NoResolvers == [k \in ResolverKinds |-> 0]
NoneSeen == [fatal |-> FALSE, skipped |-> FALSE, found4 |-> 0]

Init ==
  /\ running_ = FALSE
  /\ poll_ = 0
  /\ client_ = NullHandle
  /\ sb_ = NullHandle
  /\ sources_res_ = <<>>
  /\ sources_res_mutex_ = "free"
  /\ loop = "none"
  /\ ev = IdleEv
  /\ host = IdleHost
  /\ task = <<>>
  /\ resolvers = NoResolvers
  /\ removeCalls = [s \in Services |-> 0]
  /\ seen = NoneSeen
  /\ nev = 0
  /\ alloc = [poll |-> 0, client |-> 0, sb |-> 0, thread |-> 0]
  /\ calls = NoCall

(* ------------------------------ helpers -------------------------------- *)
RemoveAt(seq, i) == SubSeq(seq, 1, i - 1) \o SubSeq(seq, i + 1, Len(seq))

\* std::future::valid(): the shared state has not been retrieved with get()
valid(t) == task[t].removed = 0

\* wait_for(0ms) == future_status::ready: the task's lambda has returned
ready(t) == task[t].st = "ready"

\* the threaded poll's helper thread exists (thread_running in thread-watch.c)
thread_running == loop \in {"running", "quit"}

avahi_threaded_poll_quit_missing == "running"

\* avahi_threaded_poll_quit(): the loop leaves after the current callback
avahi_threaded_poll_quit == "quit"

(* ------------------------------ init() --------------------------------- *)
init_always_acquires == FALSE

init_restarts_after_fatal == running_ /\ ~seen.fatal

\* if (running_) return true;  at the head of init()
init_already_running == running_

\* MDNSClient::init()
init(pollOk, clientOk, startOk) ==
  /\ host.pc = "idle"
  /\ IF init_already_running
     THEN /\ calls' = [op |-> "init", ret |-> TRUE, noop |-> TRUE]
          /\ UNCHANGED <<running_, poll_, client_, sb_, loop, resolvers, alloc, seen>>
     ELSE /\ alloc.poll < MaxInits
          /\ IF ~pollOk
             THEN \* poll_.reset(nullptr); return false
                  /\ poll_' = 0
                  /\ calls' = [op |-> "init", ret |-> FALSE, noop |-> FALSE]
                  /\ UNCHANGED <<running_, client_, sb_, loop, resolvers, alloc, seen>>
             ELSE IF ~clientOk
             THEN \* poll_ keeps the new object; client_.reset(nullptr); return false
                  /\ poll_' = alloc.poll + 1
                  /\ client_' = NullHandle
                  /\ resolvers' = NoResolvers
                  /\ alloc' = [alloc EXCEPT !.poll = @ + 1]
                  /\ calls' = [op |-> "init", ret |-> FALSE, noop |-> FALSE]
                  /\ UNCHANGED <<running_, sb_, loop, seen>>
             ELSE /\ poll_' = alloc.poll + 1
                  /\ client_' = [id |-> alloc.client + 1, on |-> alloc.poll + 1]
                  /\ resolvers' = NoResolvers
                  /\ seen' = [seen EXCEPT !.fatal = FALSE]
                  /\ loop' = IF startOk THEN "running" ELSE "none"
                  /\ alloc' = [alloc EXCEPT !.poll = @ + 1, !.client = @ + 1,
                                            !.thread = IF startOk THEN @ + 1 ELSE @]
                  /\ running_' = TRUE
                  /\ calls' = [op |-> "init", ret |-> TRUE, noop |-> FALSE]
                  /\ UNCHANGED sb_
  /\ UNCHANGED <<sources_res_, sources_res_mutex_, ev, host, task, removeCalls,
                 nev>>

(* -------------------------- process_results() -------------------------- *)
\* std::lock_guard lock(sources_res_mutex_) at the head of process_results()
process_results_lock ==
  /\ host.pc = "idle"
  /\ sources_res_mutex_ = "free"
  /\ sources_res_mutex_' = "host"
  /\ host' = [pc |-> "reap", i |-> 1, waits |-> 0, snap |-> sources_res_]
  /\ UNCHANGED <<running_, poll_, client_, sb_, sources_res_, loop, ev, task,
                 resolvers, removeCalls, seen, nev, alloc, calls>>

process_results_pred_removes_all(t) == TRUE

\* the remove_if predicate of process_results() on one list element
process_results_pred(t) == IF ~valid(t) THEN TRUE ELSE ready(t)

\* one iteration of sources_res_.remove_if(...) in process_results()
process_results_check ==
  /\ host.pc = "reap"
  /\ host.i <= Len(sources_res_)
  /\ LET t == sources_res_[host.i] IN
       IF process_results_pred(t)
       THEN /\ sources_res_' = RemoveAt(sources_res_, host.i)
            /\ task' = [task EXCEPT ![t].removed = @ + 1]
            /\ UNCHANGED host
       ELSE /\ host' = [host EXCEPT !.i = @ + 1]
            /\ UNCHANGED <<sources_res_, task>>
  /\ UNCHANGED <<running_, poll_, client_, sb_, sources_res_mutex_, loop, ev,
                 resolvers, removeCalls, seen, nev, alloc, calls>>

process_results_return_keeps_lock ==
  /\ host.pc = "reap"
  /\ host.i > Len(sources_res_)
  /\ host' = IdleHost
  /\ UNCHANGED <<running_, poll_, client_, sb_, sources_res_, sources_res_mutex_,
                 loop, ev, task, resolvers, removeCalls, seen, nev, alloc, calls>>

\* end of process_results(): the lock_guard releases the mutex
process_results_return ==
  /\ host.pc = "reap"
  /\ host.i > Len(sources_res_)
  /\ sources_res_mutex_' = "free"
  /\ host' = IdleHost
  /\ UNCHANGED <<running_, poll_, client_, sb_, sources_res_, loop, ev, task,
                 resolvers, removeCalls, seen, nev, alloc, calls>>

(* ----------------------------- terminate() ----------------------------- *)
terminate_unconditional == TRUE

\* if (running_) { ... }  at the head of terminate()
terminate_is_running == running_

\* MDNSClient::terminate(): the running_ check and running_ = false
terminate ==
  /\ host.pc = "idle"
  /\ IF terminate_is_running
     THEN /\ running_' = FALSE
          /\ host' = [pc |-> "term_lock", i |-> 0, waits |-> 0, snap |-> <<>>]
          /\ calls' = [op |-> "terminate", ret |-> FALSE, noop |-> FALSE]
     ELSE /\ calls' = [op |-> "terminate", ret |-> TRUE, noop |-> TRUE]
          /\ UNCHANGED <<running_, host>>
  /\ UNCHANGED <<poll_, client_, sb_, sources_res_, sources_res_mutex_, loop, ev,
                 task, resolvers, removeCalls, seen, nev, alloc>>

terminate_lock_unguarded ==
  /\ host.pc = "term_lock"
  /\ sources_res_mutex_' = "host"
  /\ host' = [host EXCEPT !.pc = "term_drain", !.i = Len(sources_res_)]
  /\ UNCHANGED <<running_, poll_, client_, sb_, sources_res_, loop, ev, task,
                 resolvers, removeCalls, seen, nev, alloc, calls>>

\* std::lock_guard lock(sources_res_mutex_) inside terminate(), and the log
\* line "waiting for <sources_res_.size()> RTSP clients" (kept in host.i)
terminate_lock ==
  /\ host.pc = "term_lock"
  /\ sources_res_mutex_ = "free"
  /\ sources_res_mutex_' = "host"
  /\ host' = [host EXCEPT !.pc = "term_drain", !.i = Len(sources_res_)]
  /\ UNCHANGED <<running_, poll_, client_, sb_, sources_res_, loop, ev, task,
                 resolvers, removeCalls, seen, nev, alloc, calls>>

terminate_wait_skipped(t) == TRUE

\* result.wait() in terminate()'s predicate can return for task t
terminate_wait_done(t) == ready(t)

\* one iteration of sources_res_.remove_if(...) in terminate()
terminate_drain ==
  /\ host.pc = "term_drain"
  /\ Len(sources_res_) > 0
  /\ LET t == sources_res_[1] IN
       /\ valid(t) => terminate_wait_done(t)
       /\ sources_res_' = Tail(sources_res_)
       /\ task' = [task EXCEPT ![t].removed = @ + 1]
       /\ host' = [host EXCEPT !.waits = IF valid(t) THEN @ + 1 ELSE @]
  /\ UNCHANGED <<running_, poll_, client_, sb_, sources_res_mutex_, loop, ev,
                 resolvers, removeCalls, seen, nev, alloc, calls>>

terminate_stop_without_poll_stop ==
  /\ host.pc = "term_drain"
  /\ Len(sources_res_) = 0
  /\ sources_res_mutex_' = "free"
  /\ host' = IdleHost
  /\ calls' = [op |-> "terminate", ret |-> TRUE, noop |-> FALSE]
  /\ UNCHANGED <<running_, poll_, client_, sb_, sources_res_, loop, ev, task,
                 resolvers, removeCalls, seen, nev, alloc>>

\* avahi_threaded_poll_stop(poll_.get()), the lock_guard's release and return true
terminate_stop ==
  /\ host.pc = "term_drain"
  /\ Len(sources_res_) = 0
  /\ thread_running => ev.pc = "idle"
  /\ loop' = IF thread_running THEN "stopped" ELSE loop
  /\ sources_res_mutex_' = "free"
  /\ host' = IdleHost
  /\ calls' = [op |-> "terminate", ret |-> TRUE, noop |-> FALSE]
  /\ UNCHANGED <<running_, poll_, client_, sb_, sources_res_, ev, task,
                 resolvers, removeCalls, seen, nev, alloc>>

(* ------------------------- describe tasks ------------------------------ *)
RTSPClient_describe_unchecked(t, ok) ==
  /\ t \in 1..Len(task)
  /\ task[t].st = "running"
  /\ task' = [task EXCEPT ![t].res = IF ok THEN "ok" ELSE "fail",
                          ![t].st = "described"]
  /\ UNCHANGED <<running_, poll_, client_, sb_, sources_res_, sources_res_mutex_,
                 loop, ev, host, resolvers, removeCalls, seen, nev, alloc, calls>>

\* RTSPClient::describe returns in task t with res.first = ok
RTSPClient_describe(t, ok) ==
  /\ t \in 1..Len(task)
  /\ task[t].st = "running"
  /\ task' = [task EXCEPT ![t].res = IF ok THEN "ok" ELSE "fail",
                          ![t].st = IF ok THEN "described" ELSE "ready"]
  /\ UNCHANGED <<running_, poll_, client_, sb_, sources_res_, sources_res_mutex_,
                 loop, ev, host, resolvers, removeCalls, seen, nev, alloc, calls>>

\* if (res.first) mdns.on_new_rtsp_source(name_, domain_, res.second); the
\* lambda then returns and the future becomes ready
on_new_rtsp_source(t) ==
  /\ t \in 1..Len(task)
  /\ task[t].st = "described"
  /\ task' = [task EXCEPT ![t].news = @ + 1,
                          ![t].late = task[t].stale,
                          ![t].st = "ready"]
  /\ UNCHANGED <<running_, poll_, client_, sb_, sources_res_, sources_res_mutex_,
                 loop, ev, host, resolvers, removeCalls, seen, nev, alloc, calls>>

(* ----------------------- poll thread callbacks ------------------------- *)
\* the poll thread is in its loop and free to run a callback
CanDeliver == loop = "running" /\ ev.pc = "idle" /\ nev < MaxEvents

ClientStates == {"FAILURE", "S_REGISTERING", "S_RUNNING", "S_COLLISION", "CONNECTING"}
BrowserEvents == {"FAILURE", "NEW", "REMOVE", "ALL_FOR_NOW", "CACHE_EXHAUSTED"}
ResolverEvents == {"FAILURE", "FOUND"}

\* MDNSClient::client_callback
client_callback(state, sbOk) ==
  /\ CanDeliver
  /\ client_.id # 0
  /\ state \in ClientStates
  /\ IF state = "FAILURE"
     THEN /\ loop' = avahi_threaded_poll_quit
          /\ seen' = [seen EXCEPT !.fatal = TRUE]
          /\ UNCHANGED <<sb_, alloc>>
     ELSE IF state \in {"S_REGISTERING", "S_RUNNING", "S_COLLISION"}
     THEN IF sbOk
          THEN /\ sb_' = [id |-> alloc.sb + 1, on |-> client_.id]
               /\ alloc' = [alloc EXCEPT !.sb = @ + 1]
               /\ UNCHANGED <<loop, seen>>
          ELSE /\ sb_' = NullHandle
               /\ loop' = avahi_threaded_poll_quit
               /\ seen' = [seen EXCEPT !.fatal = TRUE]
               /\ UNCHANGED alloc
     ELSE UNCHANGED <<sb_, alloc, loop, seen>>
  /\ nev' = nev + 1
  /\ UNCHANGED <<running_, poll_, client_, sources_res_, sources_res_mutex_, ev,
                 host, task, resolvers, removeCalls, calls>>

on_remove_rtsp_source_twice(name) == [removeCalls EXCEPT ![name] = @ + 2]

\* on_remove_rtsp_source(name, domain): the host's callback is invoked
on_remove_rtsp_source(name) == [removeCalls EXCEPT ![name] = @ + 1]

\* avahi_service_resolver_new(...) succeeded: one more outstanding resolver
avahi_service_resolver_new(name) ==
  [resolvers EXCEPT ![<<name, FALSE>>] = @ + 1]

\* avahi_service_resolver_free(r) for a resolver of kind k
avahi_service_resolver_free(k) == [resolvers EXCEPT ![k] = @ - 1]

\* history: a REMOVE for `name` was handled after the NEW that created a resolver
MarkStale(name) ==
  [k \in ResolverKinds |->
     IF k[1] # name THEN resolvers[k]
     ELSE IF k[2] THEN resolvers[<<name, TRUE>>] + resolvers[<<name, FALSE>>]
     ELSE 0]

\* MDNSClient::browse_callback
browse_callback(event, name, resolverOk) ==
  /\ CanDeliver
  /\ sb_.id # 0 /\ sb_.on = client_.id
  /\ event \in BrowserEvents
  /\ IF event = "FAILURE"
     THEN /\ loop' = avahi_threaded_poll_quit
          /\ seen' = [seen EXCEPT !.fatal = TRUE]
          /\ UNCHANGED <<resolvers, removeCalls, task>>
     ELSE IF event = "NEW"
     THEN /\ resolvers' = IF resolverOk
                          THEN avahi_service_resolver_new(name)
                          ELSE resolvers
          /\ UNCHANGED <<loop, removeCalls, task, seen>>
     ELSE IF event = "REMOVE"
     THEN /\ removeCalls' = on_remove_rtsp_source(name)
          /\ resolvers' = MarkStale(name)
          /\ task' = [t \in 1..Len(task) |->
                        IF task[t].svc = name
                        THEN [task[t] EXCEPT !.stale = TRUE] ELSE task[t]]
          /\ UNCHANGED <<loop, seen>>
     ELSE UNCHANGED <<loop, resolvers, removeCalls, task, seen>>
  /\ nev' = nev + 1
  /\ UNCHANGED <<running_, poll_, client_, sb_, sources_res_, sources_res_mutex_,
                 ev, host, alloc, calls>>

resolve_callback_failure_fatal(r, event, address) ==
  /\ CanDeliver
  /\ r \in ResolverKinds /\ resolvers[r] > 0
  /\ event \in ResolverEvents
  /\ IF event = "FOUND" /\ address_v4_from_string(avahi_address_snprint(address))
     THEN /\ ev' = [pc |-> "found_lock", svc |-> r[1], stale |-> r[2]]
          /\ UNCHANGED <<resolvers, loop>>
     ELSE /\ resolvers' = avahi_service_resolver_free(r)
          /\ loop' = avahi_threaded_poll_quit
          /\ UNCHANGED ev
  /\ seen' = IF event # "FOUND" THEN seen
             ELSE IF address.proto = "INET"
             THEN [seen EXCEPT !.found4 = @ + 1]
             ELSE [seen EXCEPT !.skipped = TRUE]
  /\ nev' = nev + 1
  /\ UNCHANGED <<running_, poll_, client_, sb_, sources_res_, sources_res_mutex_,
                 host, task, removeCalls, alloc, calls>>

\* MDNSClient::resolve_callback up to the lock_guard (or to its end when no
\* task is dispatched)
resolve_callback(r, event, address) ==
  /\ CanDeliver
  /\ r \in ResolverKinds /\ resolvers[r] > 0
  /\ event \in ResolverEvents
  /\ IF event = "FOUND" /\ address_v4_from_string(avahi_address_snprint(address))
     THEN /\ ev' = [pc |-> "found_lock", svc |-> r[1], stale |-> r[2]]
          /\ UNCHANGED resolvers
     ELSE /\ resolvers' = avahi_service_resolver_free(r)
          /\ UNCHANGED ev
  /\ seen' = IF event # "FOUND" THEN seen
             ELSE IF address.proto = "INET"
             THEN [seen EXCEPT !.found4 = @ + 1]
             ELSE [seen EXCEPT !.skipped = TRUE]
  /\ nev' = nev + 1
  /\ UNCHANGED <<running_, poll_, client_, sb_, sources_res_, sources_res_mutex_,
                 loop, host, task, removeCalls, alloc, calls>>

\* std::lock_guard lock(mdns.sources_res_mutex_) in resolve_callback
resolve_lock ==
  /\ ev.pc = "found_lock"
  /\ sources_res_mutex_ = "free"
  /\ sources_res_mutex_' = "loop"
  /\ ev' = [ev EXCEPT !.pc = "found_cs"]
  /\ UNCHANGED <<running_, poll_, client_, sb_, sources_res_, loop, host, task,
                 resolvers, removeCalls, seen, nev, alloc, calls>>

\* sources_res_.emplace_back(std::async(...)), the lock_guard's release and
\* avahi_service_resolver_free(r)
resolve_dispatch ==
  /\ ev.pc = "found_cs"
  /\ task' = Append(task, NewTask(ev.svc, ev.stale))
  /\ sources_res_' = Append(sources_res_, Len(task) + 1)
  /\ sources_res_mutex_' = "free"
  /\ resolvers' = avahi_service_resolver_free(<<ev.svc, ev.stale>>)
  /\ ev' = IdleEv
  /\ UNCHANGED <<running_, poll_, client_, sb_, loop, host,
                 removeCalls, seen, nev, alloc, calls>>


(* ------------------------------- claims -------------------------------- *)
Tasks == 1..Len(task)
Range(seq) == {seq[i] : i \in 1..Len(seq)}

\* C1: every dispatched describe task invokes on_new_rtsp_source exactly once
\* when describe succeeded and never when it failed: a task whose future is
\* ready has made one call iff its result was success, no task ever makes a
\* second call, and reaping or draining removes only finished tasks, once,
\* without changing the number of calls.
C1_OneCallPerSuccess ==
  \A t \in Tasks :
    /\ task[t].news <= 1
    /\ task[t].news = 1 => task[t].res = "ok"
    /\ task[t].st = "ready" => task[t].news = (IF task[t].res = "ok" THEN 1 ELSE 0)
    /\ task[t].removed <= 1
    /\ task[t].removed = 1 => /\ task[t].st = "ready"
                              /\ t \notin Range(sources_res_)
    /\ task[t].removed = 0 => t \in Range(sources_res_)

\* two tasks for different services have both completed with success, one
\* call each, and a third party (reap or drain) has removed them
C1_Witness ==
  \E t1, t2 \in Tasks :
    /\ task[t1].svc # task[t2].svc
    /\ task[t1].st = "ready" /\ task[t2].st = "ready"
    /\ task[t1].news = 1 /\ task[t2].news = 1
    /\ task[t1].removed = 1 /\ task[t2].removed = 1

\* C2: on_new_rtsp_source of a discovery is never invoked after the
\* on_remove_rtsp_source of a later REMOVE of the same service.
C2_NewNeverAfterRemove == \A t \in Tasks : ~task[t].late

\* C3: a terminate() that found running_ set returns only with every task
\* finished and removed exactly once and the list empty, having waited once
\* per task it logged (none when the list was empty).
C3_TerminateDrains ==
  [][(host.pc = "term_drain" /\ host'.pc = "idle") =>
       /\ sources_res_' = <<>>
       /\ \A t \in Tasks : task'[t].st = "ready" /\ task'[t].removed = 1
       /\ host.waits = host.i]_vars

\* terminate() has waited for two tasks and is about to return
C3_Witness ==
  /\ host.pc = "term_drain"
  /\ sources_res_ = <<>>
  /\ host.waits = 2

\* C4: while process_results() runs, a check removes the element it looks at
\* iff that task is ready (or invalid), every other element stays in place in
\* the same order, no unfinished task of the list it started with is ever
\* missing, and its next step never has to wait for a task.
C4_ReapNonBlocking ==
  [][host.pc = "reap" =>
       /\ \A x \in Range(host.snap) : ~ready(x) => x \in Range(sources_res_)
       /\ ENABLED (process_results_check \/ process_results_return)
       /\ (host' # host /\ host'.pc = "reap") =>
             LET t == sources_res_[host.i] IN
               /\ ~ready(t) /\ valid(t)
               /\ sources_res_' = sources_res_
               /\ host'.i = host.i + 1
       /\ sources_res_' # sources_res_ =>
             LET t == sources_res_[host.i] IN
               /\ ready(t) \/ ~valid(t)
               /\ sources_res_' = SelectSeq(sources_res_, LAMBDA x : x # t)
               /\ host' = host]_vars

\* process_results() has passed over a task still in flight and removed a
\* finished one behind it
C4_Witness ==
  /\ host.pc = "reap"
  /\ Len(host.snap) = 2
  /\ sources_res_ = <<host.snap[1]>>
  /\ ~ready(host.snap[1])
  /\ task[host.snap[2]].removed = 1

\* C5: the describe tasks ever appended, plus the one the resolve handler is
\* about to append, are exactly the FOUND events whose address is of the IPv4
\* family: a FOUND with any other address appends nothing (so no
\* on_new_rtsp_source can follow from it), a FOUND with an IPv4 address
\* appends one task.
C5_DispatchIffIPv4 ==
  /\ Len(task) + (IF ev.pc = "idle" THEN 0 ELSE 1) = seen.found4
  /\ Len(sources_res_) <= Len(task)

\* a FOUND with a non-IPv4 address and a FOUND with an IPv4 address have both
\* been handled to the end, and exactly one task exists
C5_Witness ==
  /\ seen.skipped
  /\ seen.found4 = 1
  /\ ev.pc = "idle"
  /\ Len(task) = 1
  /\ sources_res_ = <<1>>

TotalResolvers(f) ==
  f[<<"cam1", FALSE>>] + f[<<"cam1", TRUE>>] + f[<<"cam2", FALSE>>] + f[<<"cam2", TRUE>>]

\* C6: handling a REMOVE browse event invokes on_remove_rtsp_source for that
\* name exactly once within the same callback, creates no resolver and
\* dispatches no task; no other step invokes on_remove_rtsp_source.
C6_RemoveCallsOncePerRemove ==
  [][/\ \A name \in Services, ok \in BOOLEAN :
          browse_callback("REMOVE", name, ok) =>
            /\ removeCalls' = [removeCalls EXCEPT ![name] = @ + 1]
            /\ TotalResolvers(resolvers') = TotalResolvers(resolvers)
            /\ Len(task') = Len(task)
            /\ sources_res_' = sources_res_
            /\ ev' = ev /\ ev.pc = "idle"
     /\ removeCalls' # removeCalls =>
          \E name \in Services, ok \in BOOLEAN : browse_callback("REMOVE", name, ok)]_vars

\* a REMOVE for cam1 was handled while a resolver for it was outstanding
C6_Witness ==
  /\ removeCalls["cam1"] = 1
  /\ resolvers[<<"cam1", TRUE>>] = 1

\* C7: once a callback has met a fatal condition (client FAILURE, browser
\* FAILURE, browser creation failure) the poll loop is no longer running, and
\* until a later successful init() no event is handled, no callback runs, no
\* client, browser or poll thread is created and the loop is not restarted.
C7_FatalStopsLoop ==
  [][seen.fatal =>
       /\ loop \in {"quit", "stopped"}
       /\ seen'.fatal =>
            /\ nev' = nev
            /\ ev' = ev
            /\ alloc'.client = alloc.client
            /\ alloc'.sb = alloc.sb
            /\ alloc'.thread = alloc.thread
            /\ sb_' = sb_
            /\ loop' # "running"]_vars

\* a fatal condition was met while a browser existed and events could still
\* have been delivered
C7_Witness ==
  /\ seen.fatal
  /\ running_
  /\ sb_.id # 0
  /\ TotalResolvers(resolvers) > 0
  /\ nev < MaxEvents

\* C8: an init() that returned failure leaves running_ false and holds no
\* resource it acquired: neither a poll object nor a client.
C8_FailedInitReleases ==
  (calls.op = "init" /\ ~calls.ret) =>
    /\ ~running_
    /\ poll_ = 0
    /\ client_ = NullHandle

\* C9: init() called with running_ set returns true and changes nothing: no
\* poll, client or thread is acquired and handles, pending list, loop and
\* running_ stay as they were.
C9_InitIdempotent ==
  [][\A p, c, st \in BOOLEAN :
       (running_ /\ init(p, c, st)) =>
         /\ calls'.ret
         /\ UNCHANGED <<running_, poll_, client_, sb_, sources_res_,
                        sources_res_mutex_, loop, ev, host, task, resolvers,
                        removeCalls, seen, nev, alloc>>]_vars

\* a second init() returned early after exactly one acquisition
C9_Witness ==
  /\ calls = [op |-> "init", ret |-> TRUE, noop |-> TRUE]
  /\ running_
  /\ alloc.poll = 1 /\ alloc.client = 1 /\ alloc.thread = 1

\* C10: terminate() called with running_ clear returns at once: it takes no
\* lock, waits for no task, does not stop the loop and changes nothing.
C10_TerminateNoopWhenStopped ==
  [][(~running_ /\ host.pc = "idle" /\ terminate) =>
       /\ host' = host
       /\ calls'.ret
       /\ UNCHANGED <<running_, poll_, client_, sb_, sources_res_,
                      sources_res_mutex_, loop, ev, task, resolvers,
                      removeCalls, seen, nev, alloc>>]_vars

\* terminate() returned early after a failed init() left a poll object behind
C10_Witness ==
  /\ calls = [op |-> "terminate", ret |-> TRUE, noop |-> TRUE]
  /\ ~running_
  /\ poll_ # 0
  /\ client_ = NullHandle

\* C11 (as stated): no thread holds sources_res_mutex_ while a dispatched
\* describe task is still running.
C11_LockNeverHeldWhileTaskRuns ==
  sources_res_mutex_ # "free" => \A t \in Tasks : task[t].st = "ready"

\* C11 (amended): the mutex is held exactly while the host thread is between
\* the lock and the return of process_results() or of terminate(), or the poll
\* thread is in the append of resolve_callback; a describe task never takes
\* it and never needs it to make its step.
C11_LockHeldOnlyByListOperations ==
  /\ sources_res_mutex_ \in {"free", "host", "loop"}
  /\ sources_res_mutex_ = "host" <=> host.pc \in {"reap", "term_drain"}
  /\ sources_res_mutex_ = "loop" <=> ev.pc = "found_cs"
  /\ \A t \in Tasks :
       /\ task[t].st = "running" => ENABLED RTSPClient_describe(t, TRUE)
       /\ task[t].st = "described" => ENABLED on_new_rtsp_source(t)

\* terminate() holds the mutex while a task it waits for is still running
C11_Witness ==
  /\ sources_res_mutex_ = "host"
  /\ host.pc = "term_drain"
  /\ \E t \in Range(sources_res_) : task[t].st = "running"

\* C12: a resolve handler that is about to dispatch never has to wait for a
\* describe task: it is never waiting for the mutex while the holder of the
\* mutex waits for an unfinished task.
C12_DispatchNeverWaitsForTask ==
  ev.pc = "found_lock" =>
    ~(/\ sources_res_mutex_ = "host"
      /\ host.pc = "term_drain"
      /\ \E t \in Range(sources_res_) : ~ready(t))

\* C13: once every describe task has finished, a terminate() in progress can
\* always go on to its return: one of its own steps is enabled, or the poll
\* thread's append that it is waiting behind is.
C13_TerminateCanReturn ==
  (host.pc \in {"term_lock", "term_drain"} /\ \A t \in Tasks : ready(t)) =>
    ENABLED (terminate_lock \/ terminate_drain \/ terminate_stop \/ resolve_dispatch)

\* C14: when sb_ already holds a browser of the current client, handling a
\* connection state leaves it in place and creates no other browser.
C14_BrowserCreatedOnce ==
  [][(sb_.id # 0 /\ sb_.on = client_.id /\ client_' = client_) =>
       /\ alloc'.sb = alloc.sb
       /\ sb_' = sb_]_vars

\* C15: handles are released in reverse order of acquisition: the poll object
\* a held client was created on is still held, and the client a held browser
\* was created on is still held.
C15_ReverseOrderRelease ==
  /\ client_.id # 0 => client_.on = poll_
  /\ sb_.id # 0 => sb_.on = client_.id

\* C16: the append of resolve_callback, the reap of process_results() and the
\* drain of terminate() are never inside their critical section together.
C16_MutualExclusion ==
  /\ ~(ev.pc = "found_cs" /\ host.pc \in {"reap", "term_drain"})
  /\ ev.pc = "found_cs" => sources_res_mutex_ = "loop"
  /\ host.pc \in {"reap", "term_drain"} => sources_res_mutex_ = "host"

\* the resolve handler waits for the mutex while process_results() is in its
\* critical section with a task in the list
C16_Witness ==
  /\ ev.pc = "found_lock"
  /\ host.pc = "reap"
  /\ Len(sources_res_) > 0

\* C17: a step of init() that sets running_ has started the poll thread.
C17_RunningOnlyAfterThreadStart ==
  [][(~running_ /\ running_') =>
       /\ alloc'.thread = alloc.thread + 1
       /\ loop' = "running"]_vars

\* the recoverable conditions: a resolver FAILURE, a FOUND with an address
\* that is not IPv4, a NEW whose resolver cannot be created (poll thread), and
\* a describe that returns failure (task thread)
RecoverableEvent ==
  \/ \E r \in ResolverKinds, a \in Addresses : resolve_callback(r, "FAILURE", a)
  \/ \E r \in ResolverKinds, a \in Addresses :
       a.proto # "INET" /\ resolve_callback(r, "FOUND", a)
  \/ \E name \in Services : browse_callback("NEW", name, FALSE)

\* C18: a recoverable condition leaves running_, the handles and the fatal
\* mark as they were and the poll loop running and free for the next event;
\* a failed describe changes nothing but its own task.
C18_RecoverableKeepsLoop ==
  [][/\ RecoverableEvent =>
          /\ UNCHANGED <<running_, poll_, client_, sb_, alloc, task, sources_res_,
                         removeCalls>>
          /\ seen'.fatal = seen.fatal
          /\ loop' = "running"
          /\ ev'.pc = "idle"
     /\ (\E t \in Tasks : RTSPClient_describe(t, FALSE)) =>
          /\ UNCHANGED <<running_, poll_, client_, sb_, alloc, loop, ev, seen,
                         sources_res_, removeCalls>>
          /\ \A t \in Tasks : task'[t].news = task[t].news]_vars

\* a FOUND with a non-IPv4 address was skipped and the describe of cam2
\* returned failure; the poll loop is still running and free
C18_Witness ==
  /\ seen.skipped
  /\ ~seen.fatal
  /\ running_
  /\ loop = "running"
  /\ ev.pc = "idle"
  /\ Len(task) = 1
  /\ task[1].svc = "cam2" /\ task[1].res = "fail"
  /\ resolvers = NoResolvers

\* terminate() is not in progress and running_ is clear
Stopped == ~running_ /\ host.pc = "idle"

\* C19: whenever running_ is clear and no terminate() is in progress (before
\* the first init(), and from the return of a terminate() to the next
\* successful init()), the pending list is empty, every task has finished,
\* the poll thread runs no callback and is not looping, and no step
\* dispatches a task or invokes on_new_rtsp_source or on_remove_rtsp_source.
C19_QuietAfterTerminate ==
  /\ [](Stopped =>
          /\ sources_res_ = <<>>
          /\ \A t \in Tasks : ready(t) /\ task[t].removed = 1
          /\ ev.pc = "idle"
          /\ loop \notin {"running", "quit"}
          /\ sources_res_mutex_ = "free")
  /\ [][(Stopped /\ Stopped') =>
          UNCHANGED <<task, sources_res_, removeCalls, nev, ev, loop>>]_vars

\* terminate() has returned after draining a task, with a resolver still
\* outstanding and events left to deliver
C19_Witness ==
  /\ Stopped
  /\ calls = [op |-> "terminate", ret |-> TRUE, noop |-> FALSE]
  /\ Len(task) >= 1
  /\ TotalResolvers(resolvers) > 0
  /\ nev < MaxEvents

\* C20: a callback that meets a fatal condition leaves running_ as it is; while
\* the fatal mark and running_ are set, init() returns true and acquires and
\* starts nothing; the loop is only ever started by an init() that found
\* running_ clear; and the describe tasks in flight can still take their
\* steps and, once finished, are removed by process_results() or terminate().
C20_FatalKeepsRunState ==
  /\ [][/\ (~seen.fatal /\ seen'.fatal) => running_' = running_
        /\ \A p, c, st \in BOOLEAN :
             (seen.fatal /\ running_ /\ init(p, c, st)) =>
               /\ calls'.ret
               /\ UNCHANGED <<running_, poll_, client_, sb_, loop, alloc, seen>>
        /\ (loop # "running" /\ loop' = "running") =>
             /\ ~running_ /\ running_'
             /\ calls'.op = "init"]_vars
  /\ [](seen.fatal =>
          \A t \in Tasks :
            /\ task[t].st = "running" => ENABLED RTSPClient_describe(t, TRUE)
            /\ task[t].st = "described" => ENABLED on_new_rtsp_source(t)
            /\ (ready(t) /\ host.pc = "reap" /\ host.i <= Len(sources_res_)
                /\ sources_res_[host.i] = t) => ENABLED process_results_check)

\* after a fatal condition with a describe in flight, the task completed
\* and was removed, and a later init() returned early with running_ still set
C20_Witness ==
  /\ seen.fatal
  /\ running_
  /\ loop = "quit"
  /\ calls = [op |-> "init", ret |-> TRUE, noop |-> TRUE]
  /\ \E t \in Tasks : task[t].news = 1 /\ task[t].removed = 1

(* --------------------------- specification ----------------------------- *)
Next ==
  \/ \E pollOk, clientOk, startOk \in BOOLEAN : init(pollOk, clientOk, startOk)
  \/ process_results_lock
  \/ process_results_check
  \/ process_results_return
  \/ terminate
  \/ terminate_lock
  \/ terminate_drain
  \/ terminate_stop
  \/ \E t \in 1..Len(task), ok \in BOOLEAN : RTSPClient_describe(t, ok)
  \/ \E t \in 1..Len(task) : on_new_rtsp_source(t)
  \/ \E state \in ClientStates, sbOk \in BOOLEAN : client_callback(state, sbOk)
  \/ \E event \in BrowserEvents, name \in Services, resolverOk \in BOOLEAN :
       browse_callback(event, name, resolverOk)
  \/ \E r \in ResolverKinds, event \in ResolverEvents, address \in Addresses :
       resolve_callback(r, event, address)
  \/ resolve_lock
  \/ resolve_dispatch

Spec == Init /\ [][Next]_vars

====
